---- MODULE Spec2Model ----
(***************************************************************************)
(* A model of main.py, the MBTI dashboard: the memoized loader load_data,  *)
(* the data loading block, the controls, the two chart functions, the      *)
(* table and the CSV export, as one script run per user interaction.       *)
(*                                                                         *)
(* Strings that the code inspects (column names, country cells, numeric    *)
(* cells) are sequences of one-character strings, so that strip, lower,    *)
(* the type-code pattern and number parsing are computed.  Numbers are     *)
(* fixed-point integers, Scale units to 1.                                 *)
(***************************************************************************)
EXTENDS Integers, Sequences, FiniteSets, TLC

VARIABLES
    fs,           \* what is at DEFAULT_FILE: <<>> (no file) or <<table>>
    uploaded,     \* the file uploader's value in the last run: <<>> or <<table>>
    cache,        \* st.cache_data's entries of load_data: key -> result
    fresh,        \* TRUE when the outputs below are those of a run made
                  \* after the last change of the default file
    status,       \* how the last script run ended
    err,          \* the load error of the last run, "" if none
    parsed,       \* what load_data's body read in the last run
    data_source,  \* the source message shown by st.success
    long_df,      \* the long-format frame the last run used
    MBTI_TYPES,   \* the sorted type list the last run used
    view_mode, sel_type, sel_types, top_n, show_table,   \* widget values
    chart,        \* what st.altair_chart was given
    tbl,          \* what st.dataframe was given
    csv           \* what st.download_button was given

vars == <<fs, uploaded, cache, fresh, status, err, parsed, data_source, long_df,
          MBTI_TYPES, view_mode, sel_type, sel_types, top_n, show_table,
          chart, tbl, csv>>

----------------------------------------------------------------------------
(* Bounds of the model *)

MaxCols == 3      \* columns of a table in the header study
MaxRows == 6      \* rows of a table in the data study
MaxSwaps == 1     \* exchanges of equal-key neighbours an unstable sort makes

----------------------------------------------------------------------------
(* Strings *)

Range(s) == {s[i] : i \in DOMAIN s}

UpperChars == <<"A","B","C","D","E","F","G","H","I","J","K","L","M",
                "N","O","P","Q","R","S","T","U","V","W","X","Y","Z">>
LowerChars == <<"a","b","c","d","e","f","g","h","i","j","k","l","m",
                "n","o","p","q","r","s","t","u","v","w","x","y","z">>
Digits == <<"0","1","2","3","4","5","6","7","8","9">>

\* The characters in code-point order, as far as the model's strings use them.
CharOrder == <<" ", "-", ".", "/">> \o Digits \o UpperChars \o LowerChars

IndexOf(seq, c) == CHOOSE i \in DOMAIN seq : seq[i] = c

Ord(c) == IndexOf(CharOrder, c)

IsSpace(c) == c = " "

RECURSIVE LStrip(_)
LStrip(s) == IF s # <<>> /\ IsSpace(Head(s)) THEN LStrip(Tail(s)) ELSE s

RECURSIVE RStrip(_)
RStrip(s) ==
    IF s # <<>> /\ IsSpace(s[Len(s)]) THEN RStrip(SubSeq(s, 1, Len(s) - 1)) ELSE s

\* str.strip()
Strip(s) == RStrip(LStrip(s))

LowerChar(c) ==
    IF c \in Range(UpperChars) THEN LowerChars[IndexOf(UpperChars, c)] ELSE c

\* str.lower()
Lower(s) == [i \in DOMAIN s |-> LowerChar(s[i])]

\* s < t in Python's string order
RECURSIVE StrLess(_, _)
StrLess(s, t) ==
    IF t = <<>> THEN FALSE
    ELSE IF s = <<>> THEN TRUE
    ELSE IF Head(s) # Head(t) THEN Ord(Head(s)) < Ord(Head(t))
    ELSE StrLess(Tail(s), Tail(t))

\* re.fullmatch(r"[IE][NS][FT][PJ]", s)
IsMbtiColumn(s) ==
    /\ Len(s) = 4
    /\ s[1] \in {"I", "E"}
    /\ s[2] \in {"N", "S"}
    /\ s[3] \in {"F", "T"}
    /\ s[4] \in {"P", "J"}

Country == <<"C","o","u","n","t","r","y">>

\* ("country", "countries", "nation", "name")
CountryAliases == { <<"c","o","u","n","t","r","y">>,
                    <<"c","o","u","n","t","r","i","e","s">>,
                    <<"n","a","t","i","o","n">>,
                    <<"n","a","m","e">> }

----------------------------------------------------------------------------
(* Numbers *)

Scale == 1000000

NaN == <<>>

IsDigit(c) == c \in Range(Digits)

DigitValue(c) == IndexOf(Digits, c) - 1

RECURSIVE Pow10(_)
Pow10(n) == IF n = 0 THEN 1 ELSE 10 * Pow10(n - 1)

RECURSIVE DigitsValue(_)
DigitsValue(s) ==
    IF s = <<>> THEN 0
    ELSE 10 * DigitsValue(SubSeq(s, 1, Len(s) - 1)) + DigitValue(s[Len(s)])

\* The decimal numeral s (digits, at most one point) as a fixed-point number.
Unsigned(s) ==
    LET dots == {i \in DOMAIN s : s[i] = "."}
        p    == IF dots = {} THEN Len(s) + 1 ELSE CHOOSE i \in dots : TRUE
        ip   == SubSeq(s, 1, p - 1)
        fp   == SubSeq(s, p + 1, Len(s))
    IN  IF /\ Cardinality(dots) <= 1
           /\ \A i \in DOMAIN s : IsDigit(s[i]) \/ s[i] = "."
           /\ Len(ip) + Len(fp) >= 1
           /\ Len(fp) <= 6
        THEN <<DigitsValue(ip) * Scale + DigitsValue(fp) * Pow10(6 - Len(fp))>>
        ELSE NaN

\* A to_numeric that turns what it cannot parse into zero.
ToNumericOrZero(cell) ==
    LET s == Strip(cell)
        u == IF s # <<>> /\ Head(s) = "-" THEN Unsigned(Tail(s)) ELSE Unsigned(s)
    IN  IF u = NaN THEN <<0>>
        ELSE IF s # <<>> /\ Head(s) = "-" THEN <<0 - u[1]>> ELSE u

\* pd.to_numeric(cell, errors="coerce") of one cell: <<number>>, or NaN
ToNumeric(cell) ==
    LET s == Strip(cell)
    IN  IF s # <<>> /\ Head(s) = "-"
        THEN LET u == Unsigned(Tail(s)) IN IF u = NaN THEN NaN ELSE <<0 - u[1]>>
        ELSE Unsigned(s)

----------------------------------------------------------------------------
(* load_data *)

\* A table is what pd.read_csv returns: the header's names as written in the
\* file, and the rows' cells, one per column.
NoFile == <<>>

Positions(seq) == [i \in DOMAIN seq |-> i]

\* df.columns = [str(c).strip() for c in df.columns]
StrippedColumns(t) == [i \in DOMAIN t.header |-> Strip(t.header[i])]

\* [c for c in df.columns if str(c).lower() in (...)]
Candidates(cols) == SelectSeq(cols, LAMBDA c : Lower(c) \in CountryAliases)

NoCountryColumn(cols) == Country \notin Range(cols) /\ Candidates(cols) = <<>>

\* A rename that takes the last candidate.
CountryColumnsLastCandidate(cols) ==
    IF Country \in Range(cols) \/ Candidates(cols) = <<>>
    THEN cols
    ELSE [i \in DOMAIN cols |->
            IF cols[i] = Candidates(cols)[Len(Candidates(cols))] THEN Country ELSE cols[i]]

\* The columns after the country column was looked for: df.rename renames every
\* column that bears the first candidate's name.
CountryColumns(cols) ==
    IF Country \in Range(cols) \/ Candidates(cols) = <<>>
    THEN cols
    ELSE [i \in DOMAIN cols |->
            IF cols[i] = Candidates(cols)[1] THEN Country ELSE cols[i]]

\* mbti_cols
MbtiCols(cols) == SelectSeq(cols, IsMbtiColumn)

MbtiPositions(cols) == SelectSeq(Positions(cols), LAMBDA p : IsMbtiColumn(cols[p]))

CountryPositions(cols) == {p \in DOMAIN cols : cols[p] = Country}

\* DataFrame.melt takes id_vars="Country" as one column: with two columns of
\* that name it raises, and the data loading block reports the exception.
MeltFails(cols) == Cardinality(CountryPositions(cols)) > 1

\* df.melt(id_vars="Country", value_vars=mbti_cols, ...): the type columns one
\* after the other, each with the rows in file order; idx is the frame's index.
Melt(cols, rows) ==
    LET tp == MbtiPositions(cols)
        cp == CHOOSE p \in CountryPositions(cols) : TRUE
        R  == Len(rows)
    IN  [i \in 1..(Len(tp) * R) |->
            LET k == ((i - 1) \div R) + 1
                r == ((i - 1) % R) + 1
            IN  [idx     |-> i - 1,
                 Country |-> rows[r][cp],
                 MBTI    |-> cols[tp[k]],
                 value   |-> ToNumeric(rows[r][tp[k]])]]

\* long_df.dropna(subset=["value"])
DropNa(frame) == SelectSeq(frame, LAMBDA rec : rec.value # NaN)

\* long_df["value"].max() > 1.5
Threshold == (3 * Scale) \div 2

IsPercentScaled(frame) ==
    \E i \in DOMAIN frame : frame[i].value[1] > Threshold

\* A scale decided row by row.
RatioPerRecord(frame, rec) ==
    IF rec.value[1] > Threshold THEN rec.value[1] \div 100 ELSE rec.value[1]

\* long_df["ratio"]
Ratio(frame, rec) ==
    IF IsPercentScaled(frame) THEN rec.value[1] \div 100 ELSE rec.value[1]

\* rank(method="min"): rows of equal ratio share a rank.
RankMin(ratios, types, i) ==
    1 + Cardinality({j \in DOMAIN ratios :
                        types[j] = types[i] /\ ratios[j] > ratios[i]})

\* groupby("MBTI")["ratio"].rank(method="first", ascending=False) of row i
RankFirst(ratios, types, i) ==
    1 + Cardinality({j \in DOMAIN ratios :
                        /\ types[j] = types[i]
                        /\ \/ ratios[j] > ratios[i]
                           \/ ratios[j] = ratios[i] /\ j < i})

\* Steps 4 to 6: the long frame with its value, ratio and rank columns.
LongFrame(cols, rows) ==
    LET kept   == DropNa(Melt(cols, rows))
        ratios == [i \in DOMAIN kept |-> Ratio(kept, kept[i])]
        types  == [i \in DOMAIN kept |-> kept[i].MBTI]
    IN  [i \in DOMAIN kept |->
            [idx     |-> kept[i].idx,
             Country |-> Strip(kept[i].Country),
             MBTI    |-> kept[i].MBTI,
             value   |-> kept[i].value[1],
             ratio   |-> ratios[i],
             rank    |-> RankFirst(ratios, types, i)]]

\* sorted(mbti_cols)
RECURSIVE Insert(_, _)
Insert(x, s) ==
    IF s = <<>> THEN <<x>>
    ELSE IF StrLess(x, Head(s)) THEN <<x>> \o s
    ELSE <<Head(s)>> \o Insert(x, Tail(s))

RECURSIVE Sorted(_)
Sorted(s) == IF s = <<>> THEN <<>> ELSE Insert(s[Len(s)], Sorted(SubSeq(s, 1, Len(s) - 1)))

Failure(kind, read) ==
    [ok |-> FALSE, err |-> kind, read |-> read, source |-> "",
     long_df |-> <<>>, mbti_types |-> <<>>]

\* Steps 2 to 6 of load_data on the table that step 1 read.
Transform(t, source) ==
    LET cols == CountryColumns(StrippedColumns(t))
    IN  IF NoCountryColumn(StrippedColumns(t)) THEN Failure("MissingCountryColumn", source)
        ELSE IF MbtiCols(cols) = <<>> THEN Failure("NoTypeColumns", source)
        ELSE IF MeltFails(cols) THEN Failure("MeltError", source)
        ELSE [ok |-> TRUE, err |-> "", read |-> source, source |-> source,
              long_df |-> LongFrame(cols, t.rows),
              mbti_types |-> Sorted(MbtiCols(cols))]

\* A loader that prefers the uploaded file.
LoadDataUploadFirst(default, uploaded_file) ==
    IF uploaded_file # NoFile THEN Transform(uploaded_file[1], "uploaded")
    ELSE IF default # NoFile THEN Transform(default[1], "local")
    ELSE Failure("NoDataSource", "none")

\* The body of load_data(default_path, uploaded_file); default is what
\* os.path.exists and pd.read_csv find at default_path.
LoadData(default, uploaded_file) ==
    IF default # NoFile THEN Transform(default[1], "local")
    ELSE IF uploaded_file # NoFile THEN Transform(uploaded_file[1], "uploaded")
    ELSE Failure("NoDataSource", "none")

----------------------------------------------------------------------------
(* Selection, charts and table *)

TopNMin == 5
TopNMax == 20

\* The values of the Top N slider that the model tries: its two ends.
TopNChoices == {TopNMin, TopNMax}

\* df_long.loc[df_long["MBTI"] == type_name]
OfType(frame, type_name) == SelectSeq(frame, LAMBDA rec : rec.MBTI = type_name)

RECURSIVE InsertByRank(_, _)
InsertByRank(x, s) ==
    IF s = <<>> THEN <<x>>
    ELSE IF x.rank < Head(s).rank THEN <<x>> \o s
    ELSE <<Head(s)>> \o InsertByRank(x, Tail(s))

RECURSIVE SortByRank(_)
SortByRank(s) ==
    IF s = <<>> THEN <<>>
    ELSE InsertByRank(s[Len(s)], SortByRank(SubSeq(s, 1, Len(s) - 1)))

\* frame.nsmallest(n, columns="rank"): the n rows of least rank, least first
NSmallest(frame, n) ==
    LET s == SortByRank(frame)
    IN  SubSeq(s, 1, IF n < Len(s) THEN n ELSE Len(s))

RECURSIVE InsertByRatioDesc(_, _)
InsertByRatioDesc(x, s) ==
    IF s = <<>> THEN <<x>>
    ELSE IF x.ratio > Head(s).ratio THEN <<x>> \o s
    ELSE <<Head(s)>> \o InsertByRatioDesc(x, Tail(s))

RECURSIVE StableByRatioDesc(_)
StableByRatioDesc(s) ==
    IF s = <<>> THEN <<>>
    ELSE InsertByRatioDesc(s[Len(s)], StableByRatioDesc(SubSeq(s, 1, Len(s) - 1)))

Exchange(s, i) ==
    [k \in DOMAIN s |-> IF k = i THEN s[i + 1] ELSE IF k = i + 1 THEN s[i] ELSE s[k]]

RECURSIVE Exchanged(_, _)
Exchanged(S, k) ==
    IF k = 0 THEN S
    ELSE Exchanged(S \cup UNION {{Exchange(s, i) :
                                    i \in {j \in 1..(Len(s) - 1) :
                                              s[j].ratio = s[j + 1].ratio}} : s \in S},
                   k - 1)

\* frame.sort_values("ratio", ascending=False).  The default kind, quicksort, is
\* not a stable sort: rows of equal ratio come out in an order that depends on
\* the numpy build.  The outcomes are the descending orders within MaxSwaps
\* exchanges of equal neighbours of the stable one.
SortValuesRatioDesc(frame) == Exchanged({StableByRatioDesc(frame)}, MaxSwaps)

\* The frames that single_type_chart's data, and the single-mode tbl before its
\* columns are chosen, can be.
SingleSelection(df_long, type_name, n) ==
    SortValuesRatioDesc(NSmallest(OfType(df_long, type_name), n))

\* df_long.loc[df_long["MBTI"].isin(types) & (df_long["rank"] <= n)]
MultiSelection(df_long, types, n) ==
    SelectSeq(df_long, LAMBDA rec : rec.MBTI \in types /\ rec.rank <= n)

RECURSIVE InsertByTypeRatio(_, _)
InsertByTypeRatio(x, s) ==
    IF s = <<>> THEN <<x>>
    ELSE IF \/ StrLess(x.MBTI, Head(s).MBTI)
            \/ x.MBTI = Head(s).MBTI /\ x.ratio > Head(s).ratio
         THEN <<x>> \o s
    ELSE <<Head(s)>> \o InsertByTypeRatio(x, Tail(s))

\* frame.sort_values(["MBTI", "ratio"], ascending=[True, False]): a sort on
\* several keys is a lexsort, which is stable
RECURSIVE SortByTypeRatio(_)
SortByTypeRatio(s) ==
    IF s = <<>> THEN <<>>
    ELSE InsertByTypeRatio(s[Len(s)], SortByTypeRatio(SubSeq(s, 1, Len(s) - 1)))

\* (d["ratio"] * 100).round(2), in units of Scale
Percentage(ratio) ==
    LET unit == Scale \div 100
    IN  ((ratio * 100 + unit \div 2) \div unit) * unit

\* .assign(Percentage=...)[["MBTI", "Country", "Percentage"]]
TableRows(frame) ==
    [i \in DOMAIN frame |->
        [MBTI |-> frame[i].MBTI, Country |-> frame[i].Country,
         Percentage |-> Percentage(frame[i].ratio)]]

NoChart == [kind |-> "none", data |-> <<>>]
NoTable == [shown |-> FALSE, rows |-> <<>>]
NoCsv == ""
CsvFileName == "mbti_top_countries.csv"

----------------------------------------------------------------------------
(* Input files *)

Str_CountrySp == <<" ","C","o","u","n","t","r","y">>
Str_Nation    == <<"N","a","t","i","o","n">>
Str_name      == <<"n","a","m","e">>
Str_infj      == <<"i","n","f","j">>
Str_INFJ      == <<"I","N","F","J">>
Str_ENTPSp    == <<" ","E","N","T","P"," ">>

\* Names of columns that hold text, and of columns that hold numbers.
TextNames   == {Country, Str_CountrySp, Str_Nation, Str_name, Str_infj}
NumberNames == {Str_INFJ, Str_ENTPSp}

\* The country cells of the rows, as written in the file.
CountryCells == << <<" ","K","R">>, <<"U","S"," ">>, <<"J","P">>, <<"D","E">>,
                   <<"F","R">>, <<"B","R">>, <<"I","N">>, <<"C","N">>, <<"M","X">> >>

Cell_NA  == <<"N","/","A">>
Cell_0_3 == <<"0",".","3">>
Cell_1_5 == <<"1",".","5">>
Cell_30  == <<"3","0">>

NumberCells == {Cell_NA, Cell_0_3, Cell_1_5, Cell_30}

\* The headers of up to n distinct names (read_csv keeps the names distinct).
RECURSIVE Headers(_)
Headers(n) ==
    IF n = 0 THEN {<<>>}
    ELSE Headers(n - 1) \cup
         {Append(h, c) : <<h, c>> \in
            {<<h, c>> \in Headers(n - 1) \X (TextNames \cup NumberNames) :
                Len(h) = n - 1 /\ c \notin Range(h)}}

\* Header study: every header of 1..MaxCols columns, with one row; a text
\* column's cell repeats the column's name, which tells the columns apart.
HeaderTables ==
    {[header |-> h,
      rows   |-> << [j \in DOMAIN h |->
                        IF h[j] \in NumberNames THEN Cell_0_3 ELSE h[j]] >>] :
        h \in Headers(MaxCols) \ {<<>>}}

\* Data study, every number cell any of the cells named:
\*   one type column, up to MaxRows rows of TallCells (enough rows for Top N
\*   to cut), or up to MaxRows \div 2 rows of NumberCells;
\*   two type columns, up to MaxRows \div 3 rows of NumberCells.
TallCells == {Cell_NA, Cell_0_3, Cell_30}

OneTypeTables ==
    {[header |-> <<Country, Str_INFJ>>,
      rows   |-> [r \in DOMAIN col |-> <<CountryCells[r], col[r]>>]] :
        col \in UNION ({[1..R -> TallCells] : R \in 1..MaxRows}
                       \cup {[1..R -> NumberCells] : R \in 1..(MaxRows \div 2)})}

TwoTypeTables ==
    {[header |-> <<Str_Nation, Str_ENTPSp, Str_INFJ>>,
      rows   |-> [r \in DOMAIN g |-> <<CountryCells[r], g[r][1], g[r][2]>>]] :
        g \in UNION {[1..R -> NumberCells \X NumberCells] : R \in 1..(MaxRows \div 3)}}

DataTables == OneTypeTables \cup TwoTypeTables

PipelineTables == HeaderTables \cup DataTables

\* The files of the session study: a valid file with a tie, a file without a
\* country column, a file without a type column.
ValidFile ==
    [header |-> <<Str_Nation, Str_INFJ>>,
     rows   |-> << <<CountryCells[1], Cell_30>>, <<CountryCells[2], Cell_30>>,
                   <<CountryCells[3], Cell_NA>> >>]
NoCountryFile == [header |-> <<Str_INFJ>>, rows |-> << <<Cell_0_3>> >>]
NoTypeFile ==
    [header |-> <<Country, Str_infj>>, rows |-> << <<CountryCells[1], Cell_0_3>> >>]

SessionFiles == {ValidFile, NoCountryFile, NoTypeFile}

----------------------------------------------------------------------------
(* The script *)

LoadFailed(res) ==
    /\ status' = "error"
    /\ err' = res.err
    /\ data_source' = ""
    /\ long_df' = <<>>
    /\ MBTI_TYPES' = <<>>
    /\ view_mode' = "none" /\ sel_type' = <<>> /\ sel_types' = {}
    /\ top_n' = 0 /\ show_table' = FALSE
    /\ chart' = NoChart /\ tbl' = NoTable /\ csv' = NoCsv

\* Lines 207-247 in single mode.
RenderSingle(res, t, n, show) ==
    \E data \in SingleSelection(res.long_df, t, n) :
        /\ status' = "rendered"
        /\ view_mode' = "single" /\ sel_type' = t /\ sel_types' = {}
        /\ top_n' = n /\ show_table' = show
        /\ chart' = [kind |-> "single", data |-> data]
        /\ tbl' = IF show THEN [shown |-> TRUE, rows |-> TableRows(data)] ELSE NoTable
        /\ csv' = IF show THEN CsvFileName ELSE NoCsv

\* A multiple mode that renders an empty selection.
RenderMultipleUnchecked(res, ts, n, show) ==
    /\ view_mode' = "multiple" /\ sel_type' = <<>> /\ sel_types' = ts
    /\ top_n' = n /\ show_table' = show
    /\ status' = "rendered"
    /\ chart' = [kind |-> "facet", data |-> MultiSelection(res.long_df, ts, n)]
    /\ tbl' = IF show
              THEN [shown |-> TRUE,
                    rows  |-> TableRows(SortByTypeRatio(
                                  MultiSelection(res.long_df, ts, n)))]
              ELSE NoTable
    /\ csv' = IF show THEN CsvFileName ELSE NoCsv

\* Lines 207-247 in multiple mode.
RenderMultiple(res, ts, n, show) ==
    /\ view_mode' = "multiple" /\ sel_type' = <<>> /\ sel_types' = ts
    /\ top_n' = n /\ show_table' = show
    /\ IF ts = {}
       THEN /\ status' = "warning"
            /\ chart' = NoChart /\ tbl' = NoTable /\ csv' = NoCsv
       ELSE /\ status' = "rendered"
            /\ chart' = [kind |-> "facet", data |-> MultiSelection(res.long_df, ts, n)]
            /\ tbl' = IF show
                      THEN [shown |-> TRUE,
                            rows  |-> TableRows(SortByTypeRatio(
                                          MultiSelection(res.long_df, ts, n)))]
                      ELSE NoTable
            /\ csv' = IF show THEN CsvFileName ELSE NoCsv

\* load_data as the script calls it: st.cache_data returns the entry stored
\* for (default_path, uploaded_file) if there is one, and otherwise runs the
\* body and stores what it returns; an exception is raised and not stored.
CacheHit(up) == up \in DOMAIN cache

CachedLoad(up) == IF CacheHit(up) THEN cache[up] ELSE LoadData(fs, up)

\* A cache that stores a failed load too.
CacheAfterAlways(up, res) == IF ~CacheHit(up) THEN cache @@ (up :> res) ELSE cache

CacheAfter(up, res) == IF ~CacheHit(up) /\ res.ok THEN cache @@ (up :> res) ELSE cache

\* One run of the script, top to bottom, with the uploader's value up.
ScriptRun(up) ==
    LET res == CachedLoad(up)
    IN  /\ uploaded' = up
        /\ fresh' = TRUE
        /\ cache' = CacheAfter(up, res)
        /\ parsed' = IF CacheHit(up) THEN "cached" ELSE res.read
        /\ UNCHANGED fs
        /\ IF ~res.ok
           THEN LoadFailed(res)
           ELSE /\ err' = ""
                /\ data_source' = res.source
                /\ long_df' = res.long_df
                /\ MBTI_TYPES' = res.mbti_types
                /\ \E n \in TopNChoices, show \in BOOLEAN :
                      \/ \E t \in Range(res.mbti_types) : RenderSingle(res, t, n, show)
                      \/ \E ts \in SUBSET Range(res.mbti_types) :
                            RenderMultiple(res, ts, n, show)

\* The user interacts: a widget changes and the script runs again.
Rerun == \E up \in {NoFile} \cup {<<t>> : t \in SessionFiles} : ScriptRun(up)

\* The first run of a session, with nothing in the uploader and nothing cached.
FirstRun == status = "idle" /\ cache = <<>> /\ ScriptRun(NoFile)

\* The file at DEFAULT_FILE is written or replaced.
WriteDefaultFile ==
    \E t \in SessionFiles :
        /\ fs # <<t>>
        /\ fs' = <<t>>
        /\ fresh' = FALSE
        /\ UNCHANGED <<uploaded, cache, status, err, parsed, data_source, long_df,
                       MBTI_TYPES, view_mode, sel_type, sel_types, top_n,
                       show_table, chart, tbl, csv>>

\* The file at DEFAULT_FILE is removed.
RemoveDefaultFile ==
    /\ fs # NoFile
    /\ fs' = NoFile
    /\ fresh' = FALSE
    /\ UNCHANGED <<uploaded, cache, status, err, parsed, data_source, long_df,
                   MBTI_TYPES, view_mode, sel_type, sel_types, top_n,
                   show_table, chart, tbl, csv>>

InitOutputs ==
    /\ uploaded = NoFile
    /\ cache = <<>>
    /\ fresh = FALSE
    /\ status = "idle" /\ err = "" /\ parsed = "none" /\ data_source = ""
    /\ long_df = <<>> /\ MBTI_TYPES = <<>>
    /\ view_mode = "none" /\ sel_type = <<>> /\ sel_types = {}
    /\ top_n = 0 /\ show_table = FALSE
    /\ chart = NoChart /\ tbl = NoTable /\ csv = NoCsv

\* A session: the default file and the uploader's file change between runs.
Init == fs \in {NoFile} \cup {<<t>> : t \in SessionFiles} /\ InitOutputs

Next == Rerun \/ WriteDefaultFile \/ RemoveDefaultFile

Spec == Init /\ [][Next]_vars

\* The pipeline on one default file, over the tables of the two studies.
InitPipeline == fs \in {<<t>> : t \in PipelineTables} /\ InitOutputs

NextPipeline == FirstRun

SpecPipeline == InitPipeline /\ [][NextPipeline]_vars

----------------------------------------------------------------------------
(* Properties *)

Loaded == status \in {"rendered", "warning"}

\* The table the pipeline study loads, and its shape.
PipelineTable == fs[1]

TypeColumnsOf(t) == {j \in DOMAIN t.header : IsMbtiColumn(Strip(t.header[j]))}

UnparsableCells(t) ==
    {<<r, j>> \in (DOMAIN t.rows) \X TypeColumnsOf(t) : t.rows[r][j] = Cell_NA}

RecordsOf(type_name) == {i \in DOMAIN long_df : long_df[i].MBTI = type_name}

TypesLoaded == {long_df[i].MBTI : i \in DOMAIN long_df}

\* C1: every record that load_data produces from a table whose type cells are
\* all numbers has a ratio within [0, 1].
C1_RatioWithinUnit ==
    (Loaded /\ UnparsableCells(PipelineTable) = {})
        => \A i \in DOMAIN long_df :
              long_df[i].ratio >= 0 /\ long_df[i].ratio <= Scale

\* C2: per type code the ranks of its k records are exactly 1..k, a record of
\* higher ratio has the smaller rank, and records of equal ratio are ranked in
\* the order in which the rows were met.
C2_RanksDenseDescendingFirst ==
    Loaded =>
        \A t \in TypesLoaded :
            /\ {long_df[i].rank : i \in RecordsOf(t)} = 1..Cardinality(RecordsOf(t))
            /\ \A i, j \in RecordsOf(t) :
                  /\ long_df[i].ratio > long_df[j].ratio
                        => long_df[i].rank < long_df[j].rank
                  /\ (long_df[i].ratio = long_df[j].ratio
                        /\ long_df[i].idx < long_df[j].idx)
                        => long_df[i].rank < long_df[j].rank

\* A type with three records or more, among them a tie and two distinct
\* ratios, after a cell of the type was dropped.
C2_Witness ==
    /\ Loaded
    /\ \E t \in TypesLoaded :
          /\ Cardinality(RecordsOf(t)) >= 3
          /\ \E i, j, k \in RecordsOf(t) :
                /\ i < j /\ long_df[i].ratio = long_df[j].ratio
                /\ long_df[i].rank + 1 = long_df[j].rank
                /\ long_df[k].ratio > long_df[i].ratio
                /\ long_df[j].idx > long_df[i].idx + 1

\* The source that load_data's rule picks now.
CurrentSource == IF fs # NoFile THEN fs ELSE uploaded

\* The frame of table t, computed by the steps of load_data.
FrameOf(t) == LongFrame(CountryColumns(StrippedColumns(t)), t.rows)

\* C3: when load_data's body runs, a file at the default path is the one
\* parsed and the source is reported as local, with or without an uploaded
\* file; otherwise the uploaded file is parsed and reported as uploaded; with
\* neither, the load fails with the no-data-source error and returns no data.
C3_SourcePriority ==
    (fresh /\ status # "idle" /\ parsed # "cached") =>
        /\ fs # NoFile =>
              /\ parsed = "local"
              /\ Loaded => data_source = "local" /\ long_df = FrameOf(fs[1])
        /\ (fs = NoFile /\ uploaded # NoFile) =>
              /\ parsed = "uploaded"
              /\ Loaded => data_source = "uploaded" /\ long_df = FrameOf(uploaded[1])
        /\ (fs = NoFile /\ uploaded = NoFile) =>
              /\ parsed = "none"
              /\ status = "error" /\ err = "NoDataSource"
              /\ long_df = <<>> /\ MBTI_TYPES = <<>> /\ data_source = ""

\* The default file is parsed although another file is in the uploader.
C3_Witness ==
    /\ fresh /\ status = "rendered" /\ parsed = "local"
    /\ fs = <<ValidFile>> /\ uploaded = <<NoTypeFile>>
    /\ data_source = "local" /\ long_df # <<>>

\* The column that holds the countries of table t: the first named Country
\* after trimming, else the first whose lowercased name is an alias; 0 if none.
ExpectedCountryColumn(t) ==
    LET names   == [j \in DOMAIN t.header |-> Strip(t.header[j])]
        exact   == {j \in DOMAIN names : names[j] = Country}
        aliased == {j \in DOMAIN names : Lower(names[j]) \in CountryAliases}
        Least(S) == CHOOSE j \in S : \A k \in S : j <= k
    IN  IF exact # {} THEN Least(exact)
        ELSE IF aliased # {} THEN Least(aliased)
        ELSE 0

RowOf(t, rec) == (rec.idx % Len(t.rows)) + 1

\* C4: a column named exactly Country after trimming is the country column;
\* otherwise the first column, in column order, whose lowercased name is an
\* alias is; otherwise the load fails with the missing-country-column error.
\* A load that succeeds has exactly one column named Country.
C4_CountryColumn ==
    status # "idle" =>
        LET t == PipelineTable
            p == ExpectedCountryColumn(t)
        IN  /\ p = 0 <=> (status = "error" /\ err = "MissingCountryColumn")
            /\ Loaded =>
                  /\ \A i \in DOMAIN long_df :
                        long_df[i].Country = Strip(t.rows[RowOf(t, long_df[i])][p])
                  /\ Cardinality(CountryPositions(
                         CountryColumns(StrippedColumns(t)))) = 1

\* Two alias columns and no Country column: the first alias column is read.
C4_Witness ==
    /\ Loaded /\ long_df # <<>>
    /\ PipelineTable.header = <<Str_name, Str_INFJ, Str_Nation>>
    /\ long_df[1].Country = Str_name

\* C5: single mode returns exactly the records of the type with rank at most
\* n, in ascending rank order, also when selected records have equal ratio.
C5_SingleSelectionRankOrder ==
    (status = "rendered" /\ view_mode = "single") =>
        /\ Range(chart.data) =
              {long_df[i] : i \in {k \in RecordsOf(sel_type) : long_df[k].rank <= top_n}}
        /\ \A i \in DOMAIN chart.data : chart.data[i].rank = i
        /\ show_table => tbl.rows = TableRows(chart.data)

\* C6: multiple mode with an empty type list shows a warning and stops: no
\* chart, no table and no CSV export, whatever the show-table flag.
C6_EmptySelectionStops ==
    (view_mode = "multiple" /\ sel_types = {}) =>
        /\ status = "warning"
        /\ chart = NoChart /\ tbl = NoTable /\ csv = NoCsv

\* The empty selection met with the show-table box ticked.
C6_Witness ==
    /\ status = "warning" /\ view_mode = "multiple" /\ sel_types = {}
    /\ show_table /\ long_df # <<>>

ErrorShown ==
    /\ status = "error"
    /\ view_mode = "none" /\ sel_type = <<>> /\ sel_types = {} /\ top_n = 0
    /\ chart = NoChart /\ tbl = NoTable /\ csv = NoCsv
    /\ long_df = <<>> /\ MBTI_TYPES = <<>>

\* C7: a load that fails for want of a data source, of a country column or of
\* a type column ends the run with the error shown and no control, chart,
\* table or export; the failure is not stored, and a later run whose source
\* is valid loads and renders.
C7_LoadFailureStopsAndIsForgotten ==
    /\ [](/\ err # "" => ErrorShown
          /\ (fresh /\ status # "idle" /\ parsed # "cached") =>
                /\ CurrentSource = NoFile => err = "NoDataSource"
                /\ CurrentSource = <<NoCountryFile>> => err = "MissingCountryColumn"
                /\ CurrentSource = <<NoTypeFile>> => err = "NoTypeColumns"
          /\ (fresh /\ status # "idle" /\ CurrentSource = <<ValidFile>>) =>
                Loaded /\ long_df = FrameOf(ValidFile))
    /\ [][(fresh' /\ status' = "error") => cache' = cache]_vars
    /\ [][(status = "error" /\ fresh' /\ CurrentSource' = <<ValidFile>>)
             => (Loaded' /\ err' = "")]_vars

\* A file without type columns was uploaded after an earlier load succeeded.
C7_Witness ==
    /\ fresh /\ status = "error" /\ err = "NoTypeColumns"
    /\ uploaded = <<NoTypeFile>> /\ cache # <<>>

\* C8: one scale for the whole load: if the greatest parsed value exceeds 1.5
\* every ratio is value/100, otherwise every ratio is the value; a greatest
\* value of exactly 1.5 leaves the values as they are.
C8_OneScalePerDataset ==
    Loaded =>
        IF \E i \in DOMAIN long_df : 2 * long_df[i].value > 3 * Scale
        THEN \A i \in DOMAIN long_df : 100 * long_df[i].ratio = long_df[i].value
        ELSE \A i \in DOMAIN long_df : long_df[i].ratio = long_df[i].value

\* A small value of one type is divided because of a large value of another.
C8_Witness ==
    /\ Loaded
    /\ \E i, j \in DOMAIN long_df :
          /\ long_df[i].MBTI # long_df[j].MBTI
          /\ 2 * long_df[i].value = 3 * Scale
          /\ 100 * long_df[i].ratio = long_df[i].value
          /\ long_df[j].value > 2 * Scale

\* The cell of table t that record rec was made from.
CellOf(t, rec) ==
    LET k == (rec.idx \div Len(t.rows)) + 1
        j == CHOOSE c \in TypeColumnsOf(t) :
                Cardinality({d \in TypeColumnsOf(t) : d < c}) = k - 1
    IN  t.rows[RowOf(t, rec)][j]

\* C9: an unparsable cell yields no record and no error: the records number
\* rows x type columns less the unparsable cells, every record stems from a
\* parsable cell, the scale and the ranks are decided by the parsable cells
\* only, and a type without parsable cells gives an empty selection.
C9_UnparsableCellsDropped ==
    LET t == PipelineTable
    IN  /\ (status = "error") =>
              (TypeColumnsOf(t) = {} \/ err \in {"MissingCountryColumn", "MeltError"})
        /\ Loaded =>
              /\ Len(long_df) = Len(t.rows) * Cardinality(TypeColumnsOf(t))
                                    - Cardinality(UnparsableCells(t))
              /\ \A i \in DOMAIN long_df :
                    /\ CellOf(t, long_df[i]) # Cell_NA
                    /\ long_df[i].rank <= Cardinality(RecordsOf(long_df[i].MBTI))
              /\ (\E i \in DOMAIN long_df : long_df[i].ratio # long_df[i].value)
                    <=> (\E r \in DOMAIN t.rows, j \in TypeColumnsOf(t) :
                            t.rows[r][j] = Cell_30)
              /\ (status = "rendered" /\ view_mode = "single"
                    /\ RecordsOf(sel_type) = {}) => chart.data = <<>>

\* A type column of unparsable cells only, selected, beside a type with records.
C9_Witness ==
    /\ status = "rendered" /\ view_mode = "single"
    /\ RecordsOf(sel_type) = {} /\ chart.data = <<>>
    /\ long_df # <<>> /\ UnparsableCells(PipelineTable) # {}

\* C10: every run uses the records that belong to its current source.
C10_RunSeesCurrentSource ==
    (fresh /\ status # "idle") =>
        LET now == LoadData(fs, uploaded)
        IN  /\ now.ok <=> Loaded
            /\ long_df = now.long_df
            /\ data_source = now.source

====
